---- MODULE Spec2Model ----
(***************************************************************************)
(* Model of the fireauth token generator (generator.go).                   *)
(*                                                                         *)
(* Strings and []byte values are sequences of bytes (0..255), as in Go.    *)
(* A Generator holds a secret; callers invoke CreateToken on the shared    *)
(* Generator.  CreateToken is split at the points where it returns or      *)
(* reads something outside its own locals: parameter validation            *)
(* (lines 69-76), the clock read and claim marshalling (lines 78-102) and  *)
(* the signing with t.secret plus the length check (lines 104-113).        *)
(***************************************************************************)
EXTENDS Integers, Sequences, FiniteSets, TLC

VARIABLES secret, now, pc, data, options, iat, encodedClaim, result

vars == <<secret, now, pc, data, options, iat, encodedClaim, result>>

(***************************************************************************)
(* Bounds of the model.                                                    *)
(***************************************************************************)
\* uid strings of the length sweep have 0..MaxUidLen bytes
MaxUidLen == 258
\* the wall clock advances at most MaxTick seconds past ClockBase
MaxTick == 1
\* the epoch second at which the model starts (a ten-digit Unix time)
ClockBase == 1700000000

(***************************************************************************)
(* Program constants.                                                      *)
(***************************************************************************)
\* const Version (line 16)
Version == 0
\* the limit of len(token) (line 109)
MaxTokenLen == 1024
\* the limit of len(uid) (line 141)
MaxUid == 256

\* const TokenSep "." (line 18)
TokenSep == <<46>>

\* the errors of lines 23-27 and the nil error
ErrNoUIDKey == "ErrNoUIDKey"
ErrUIDNotString == "ErrUIDNotString"
ErrUIDTooLong == "ErrUIDTooLong"
ErrEmptyDataNoOptions == "ErrEmptyDataNoOptions"
ErrTokenTooLong == "ErrTokenTooLong"
\* the *json.UnsupportedTypeError json.Marshal returns (lines 98-101)
ErrMarshal == "json.UnsupportedTypeError"
NoErr == "nil"

(***************************************************************************)
(* Byte-sequence helpers.                                                  *)
(***************************************************************************)
\* s repeated n times
RECURSIVE Rep(_, _)
Rep(s, n) ==
    IF n = 0 THEN <<>>
    ELSE IF n = 1 THEN s
    ELSE LET h == Rep(s, n \div 2)
         IN  IF n % 2 = 0 THEN h \o h ELSE h \o h \o s

\* the concatenation of pieces[lo], ..., pieces[hi]
RECURSIVE Flatten(_, _, _)
Flatten(pieces, lo, hi) ==
    IF lo > hi THEN <<>>
    ELSE IF lo = hi THEN pieces[lo]
    ELSE LET mid == (lo + hi) \div 2
         IN  Flatten(pieces, lo, mid) \o Flatten(pieces, mid + 1, hi)

(***************************************************************************)
(* encode (lines 147-149): base64.URLEncoding.EncodeToString, then every   *)
(* "=" removed.                                                            *)
(***************************************************************************)
\* the URL-safe alphabet A-Z a-z 0-9 - _
Alphabet ==
    <<65,66,67,68,69,70,71,72,73,74,75,76,77,78,79,80,81,82,83,84,85,86,87,88,
      89,90,97,98,99,100,101,102,103,104,105,106,107,108,109,110,111,112,113,
      114,115,116,117,118,119,120,121,122,48,49,50,51,52,53,54,55,56,57,45,95>>

\* base64.URLEncoding.EncodeToString: 4 characters per 3 bytes, "=" padded
EncodeToString(bytes) ==
    LET n == Len(bytes)
        B(i) == IF i <= n THEN bytes[i] ELSE 0
        Char(j) ==
            LET base == 3 * ((j - 1) \div 4)
                k == (j - 1) % 4
            IN  IF k = 0 THEN Alphabet[(B(base + 1) \div 4) + 1]
                ELSE IF k = 1
                THEN Alphabet[((B(base + 1) % 4) * 16 + (B(base + 2) \div 16)) + 1]
                ELSE IF k = 2
                THEN IF base + 2 > n THEN 61
                     ELSE Alphabet[((B(base + 2) % 16) * 4 + (B(base + 3) \div 64)) + 1]
                ELSE IF base + 3 > n THEN 61
                     ELSE Alphabet[(B(base + 3) % 64) + 1]
    IN  [j \in 1..(4 * ((n + 2) \div 3)) |-> Char(j)]

NotPad(c) == c # 61

\* strings.Replace(s, "=", "", -1)
StripPadding(s) == SelectSeq(s, NotPad)

encode(bytes) == StripPadding(EncodeToString(bytes))

(***************************************************************************)
(* sign (lines 151-153).  hmac.New(sha256.New, key) makes a MAC to which   *)
(* nothing has been written; Sum(b) appends the tag of what was written to *)
(* b and returns the result.                                               *)
(***************************************************************************)
\* sum of i * s[i] for i in lo..hi
RECURSIVE WeightedSum(_, _, _)
WeightedSum(s, lo, hi) ==
    IF lo > hi THEN 0
    ELSE IF lo = hi THEN lo * (s[lo] + 1)
    ELSE LET mid == (lo + hi) \div 2
         IN  (WeightedSum(s, lo, mid) + WeightedSum(s, mid + 1, hi)) % 65521

\* HMAC-SHA256 abstracted: a 32-byte tag that is a function of the key and of
\* the message written, and of nothing else (a checksum stands for SHA-256;
\* what is kept is that tags of different messages differ)
HmacSha256(key, written) ==
    LET hk == WeightedSum(key, 1, Len(key))
        hm == WeightedSum(written, 1, Len(written))
    IN  [i \in 1..32 |-> (hk * (i + 3) + hm * (2 * i + 1) + i * i) % 256]

\* hmac.New(sha256.New, key)
HmacNew(key) == [key |-> key, written |-> <<>>]

\* (hash.Hash).Sum(b): b followed by the tag of the bytes written so far
HmacSum(h, b) == b \o HmacSha256(h.key, h.written)

\* sign with the conventional construction: the tag alone is encoded
signTagOnly(message, sec) == encode(HmacSha256(sec, message))

sign(message, sec) == encode(HmacSum(HmacNew(sec), message))

(***************************************************************************)
(* Values.  A Go string is its bytes.  An interface{} value of a payload   *)
(* is a string, an int or a value json.Marshal does not support (a chan).  *)
(* Data (line 57) is nil or a map, held as its members in the order of     *)
(* their keys (the order json.Marshal writes them in).  *Option            *)
(* (lines 37-53) is nil or a struct of four fields.                        *)
(***************************************************************************)
StringValue(s) == [kind |-> "string", s |-> s, n |-> 0]
IntValue(n) == [kind |-> "int", s |-> <<>>, n |-> n]
ChanValue == [kind |-> "chan", s |-> <<>>, n |-> 0]

Member(k, v) == [key |-> k, val |-> v]

NilData == [isNil |-> TRUE, m |-> <<>>]
MapData(members) == [isNil |-> FALSE, m |-> members]

NilOption == [isNil |-> TRUE, nbf |-> 0, exp |-> 0, admin |-> FALSE, debug |-> FALSE]
OptionOf(nbf, exp, admin, debug) ==
    [isNil |-> FALSE, nbf |-> nbf, exp |-> exp, admin |-> admin, debug |-> debug]

KeyUid == <<117,105,100>>
KeyBulk == <<98,117,108,107>>
KeyAdmin == <<97,100,109,105,110>>

\* the second result of data[key]: whether the map holds the key (false
\* for a nil map)
Contains(d, key) == \E i \in 1..Len(d.m) : d.m[i].key = key

\* the first result of data[key], for a key the map holds
Lookup(d, key) == d.m[CHOOSE i \in 1..Len(d.m) : d.m[i].key = key].val

(***************************************************************************)
(* encoding/json, as json.Marshal (lines 98 and 124) writes the values of  *)
(* this program.                                                           *)
(***************************************************************************)
\* strconv.FormatInt(n, 10)
RECURSIVE Itoa(_)
Itoa(n) ==
    IF n < 0 THEN <<45>> \o Itoa(0 - n)
    ELSE IF n < 10 THEN <<48 + n>>
    ELSE Itoa(n \div 10) \o <<48 + (n % 10)>>

HexDigits == <<48,49,50,51,52,53,54,55,56,57,97,98,99,100,101,102>>

IsCont(b) == b >= 128 /\ b <= 191
IsLead2(b) == b >= 194 /\ b <= 223

\* the string encoder with the two hex digits of an escape in the wrong order
QuotedByteSwapped(s, i) ==
    LET b == s[i]
    IN  IF b = 34 \/ b = 92 THEN <<92, b>>
        ELSE IF b = 10 THEN <<92, 110>>
        ELSE IF b = 13 THEN <<92, 114>>
        ELSE IF b < 32 \/ b = 60 \/ b = 62 \/ b = 38
        THEN <<92, 117, 48, 48, HexDigits[(b % 16) + 1], HexDigits[(b \div 16) + 1]>>
        ELSE IF b < 128 THEN <<b>>
        ELSE IF IsLead2(b) /\ i < Len(s) /\ IsCont(s[i + 1]) THEN <<b>>
        ELSE IF IsCont(b) /\ i > 1 /\ IsLead2(s[i - 1]) THEN <<b>>
        ELSE <<92, 117, 102, 102, 102, 100>>

\* what the string encoder writes for the byte at position i of s: bytes
\* below 0x80 are copied, or escaped (quote, backslash, newline, carriage
\* return, the other control characters and the HTML characters < > &);
\* a well-formed two-byte rune is copied; a byte that starts no rune is
\* written as the escape of U+FFFD.  Runes of three and four bytes are outside the
\* strings of this model.
QuotedByte(s, i) ==
    LET b == s[i]
    IN  IF b = 34 \/ b = 92 THEN <<92, b>>
        ELSE IF b = 10 THEN <<92, 110>>
        ELSE IF b = 13 THEN <<92, 114>>
        ELSE IF b < 32 \/ b = 60 \/ b = 62 \/ b = 38
        THEN <<92, 117, 48, 48, HexDigits[(b \div 16) + 1], HexDigits[(b % 16) + 1]>>
        ELSE IF b < 128 THEN <<b>>
        ELSE IF IsLead2(b) /\ i < Len(s) /\ IsCont(s[i + 1]) THEN <<b>>
        ELSE IF IsCont(b) /\ i > 1 /\ IsLead2(s[i - 1]) THEN <<b>>
        ELSE <<92, 117, 102, 102, 102, 100>>

\* a JSON string literal: the quoted bytes between two quotes
MarshalString(s) ==
    <<34>> \o Flatten([i \in 1..Len(s) |-> QuotedByte(s, i)], 1, Len(s)) \o <<34>>

\* whether json.Marshal supports the value
Marshalable(v) == v.kind # "chan"

MarshalValue(v) ==
    IF v.kind = "string" THEN MarshalString(v.s) ELSE Itoa(v.n)

\* pieces joined by commas
RECURSIVE JoinComma(_)
JoinComma(pieces) ==
    IF pieces = <<>> THEN <<>>
    ELSE IF Len(pieces) = 1 THEN pieces[1]
    ELSE pieces[1] \o <<44>> \o JoinComma(Tail(pieces))

\* a map: null when nil, else {"key":value,...} in the order of the keys
MarshalData(d) ==
    IF d.isNil THEN <<110,117,108,108>>
    ELSE <<123>>
         \o JoinComma([i \in 1..Len(d.m) |->
                MarshalString(d.m[i].key) \o <<58>> \o MarshalValue(d.m[i].val)])
         \o <<125>>

MarshalBool(b) == IF b THEN <<116,114,117,101>> ELSE <<102,97,108,115,101>>

\* the Option fields with the omitempty of exp forgotten
OptionFieldsExpAlways(o) ==
    IF o.isNil THEN <<>>
    ELSE (IF o.nbf # 0 THEN << <<34,110,98,102,34,58>> \o Itoa(o.nbf) >> ELSE <<>>)
      \o << <<34,101,120,112,34,58>> \o Itoa(o.exp) >>
      \o (IF o.admin THEN << <<34,97,100,109,105,110,34,58>> \o MarshalBool(o.admin) >> ELSE <<>>)
      \o (IF o.debug THEN << <<34,100,101,98,117,103,34,58>> \o MarshalBool(o.debug) >> ELSE <<>>)

\* the fields of the embedded *Option (lines 40-52): none for a nil pointer,
\* and each is tagged omitempty, so a zero or false field is left out
OptionFields(o) ==
    IF o.isNil THEN <<>>
    ELSE (IF o.nbf # 0 THEN << <<34,110,98,102,34,58>> \o Itoa(o.nbf) >> ELSE <<>>)
      \o (IF o.exp # 0 THEN << <<34,101,120,112,34,58>> \o Itoa(o.exp) >> ELSE <<>>)
      \o (IF o.admin THEN << <<34,97,100,109,105,110,34,58>> \o MarshalBool(o.admin) >> ELSE <<>>)
      \o (IF o.debug THEN << <<34,100,101,98,117,103,34,58>> \o MarshalBool(o.debug) >> ELSE <<>>)

\* the struct of lines 85-95: the promoted Option fields, then "v", "d" and
\* "iat", none of which is tagged omitempty
MarshalClaim(o, d, issuedAt) ==
    <<123>>
    \o JoinComma(OptionFields(o)
         \o << <<34,118,34,58>> \o Itoa(Version),
               <<34,100,34,58>> \o MarshalData(d),
               <<34,105,97,116,34,58>> \o Itoa(issuedAt) >>)
    \o <<125>>

\* json.Marshal fails on a map holding an unsupported value
ClaimMarshalable(d) == \A i \in 1..Len(d.m) : Marshalable(d.m[i].val)

\* encodedHeader (lines 115-129): {"alg":"HS256","typ":"JWT"} encoded
encodedHeader ==
    encode(<<123>>
           \o JoinComma(<< MarshalString(<<97,108,103>>) \o <<58>> \o MarshalString(<<72,83,50,53,54>>),
                           MarshalString(<<116,121,112>>) \o <<58>> \o MarshalString(<<74,87,84>>) >>)
           \o <<125>>)

(***************************************************************************)
(* validate (lines 131-145).                                               *)
(***************************************************************************)
\* validate with the admin flag exempting from every rule
validateAdminSkipsAll(d, isAdmind) ==
    LET containsID == Contains(d, KeyUid)
        uid == Lookup(d, KeyUid)
    IN  IF isAdmind THEN NoErr
        ELSE IF ~containsID THEN ErrNoUIDKey
        ELSE IF uid.kind # "string" THEN ErrUIDNotString
        ELSE IF Len(uid.s) > MaxUid THEN ErrUIDTooLong
        ELSE NoErr

validate(d, isAdmind) ==
    LET containsID == Contains(d, KeyUid)
        uid == Lookup(d, KeyUid)
    IN  IF ~containsID /\ ~isAdmind THEN ErrNoUIDKey
        ELSE IF containsID /\ uid.kind # "string" THEN ErrUIDNotString
        ELSE IF containsID /\ Len(uid.s) > MaxUid THEN ErrUIDTooLong
        ELSE NoErr

\* the guard of line 69
EmptyDataNoOptions(d, o) == d.isNil /\ (o.isNil \/ (~o.admin /\ ~o.debug))

\* lines 69-76: the error CreateToken returns before building anything
CheckParameters(d, o) ==
    IF EmptyDataNoOptions(d, o) THEN ErrEmptyDataNoOptions
    ELSE validate(d, ~o.isNil /\ o.admin)

\* lines 104-107: the token of a header, claims and secret
AssembleToken(header, claim, sec) ==
    LET secureString == header \o TokenSep \o claim
        signature == sign(secureString, sec)
    IN  secureString \o TokenSep \o signature

\* the length check with the limit itself refused
CheckLengthInclusive(token) ==
    IF Len(token) >= MaxTokenLen THEN [token |-> <<>>, err |-> ErrTokenTooLong]
    ELSE [token |-> token, err |-> NoErr]

\* lines 109-112
CheckLength(token) ==
    IF Len(token) > MaxTokenLen THEN [token |-> <<>>, err |-> ErrTokenTooLong]
    ELSE [token |-> token, err |-> NoErr]

(***************************************************************************)
(* The inputs callers pass.                                                *)
(***************************************************************************)
Callers == {1, 2}

\* the secrets a Generator is built with: "secret", "key2"
Secrets == { <<115,101,99,114,101,116>>, <<107,101,121,50>> }

\* one character each: a, the quote, <, e-acute (two bytes), and the byte
\* 0xFF, which is no UTF-8 at all
CharA == <<97>>
CharQuote == <<34>>
CharLt == <<60>>
CharEAcute == <<195,169>>
CharBad == <<255>>

\* a " \ < & e-acute newline z
MixedUid == <<97,34,92,60,38,195,169,10,122>>
\* the same with the byte 0xFF in it
MixedBadUid == <<97,34,255,60,122>>

UidData(s) == MapData(<< Member(KeyUid, StringValue(s)) >>)

\* payloads {"uid": s}, s of n letters a, for every n up to MaxUidLen
SweepData == { UidData(Rep(CharA, n)) : n \in 0..MaxUidLen }

\* the lengths around the limits of the uid and of the token
EdgeLens == {0, 1, 41, 42, 124, 129, 248, 249, 256, 257}

EdgeData ==
    { UidData(Rep(c, n)) : c \in {CharQuote, CharLt, CharEAcute, CharBad}, n \in EdgeLens }
    \cup { UidData(Rep(CharA, n)) : n \in {1, 248, 249, 256, 257} }
    \cup { UidData(MixedUid), UidData(MixedBadUid) }

OtherData ==
    { NilData,
      MapData(<<>>),
      MapData(<< Member(KeyBulk, StringValue(CharA)) >>),
      MapData(<< Member(KeyBulk, ChanValue) >>),
      MapData(<< Member(KeyUid, IntValue(42)) >>),
      MapData(<< Member(KeyAdmin, IntValue(1)), Member(KeyUid, StringValue(CharA)) >>),
      MapData(<< Member(KeyBulk, StringValue(Rep(CharA, 300))), Member(KeyUid, StringValue(CharA)) >>),
      MapData(<< Member(KeyBulk, ChanValue), Member(KeyUid, StringValue(CharA)) >>),
      MapData(<< Member(KeyBulk, ChanValue), Member(KeyUid, StringValue(Rep(CharA, 257))) >>) }

SomeOptions ==
    { NilOption,
      OptionOf(0, 0, FALSE, FALSE),
      OptionOf(0, 0, TRUE, FALSE),
      OptionOf(0, 0, FALSE, TRUE),
      OptionOf(5, 0, FALSE, FALSE),
      OptionOf(0, ClockBase + 3600, TRUE, FALSE),
      OptionOf(-1, ClockBase + 3600, TRUE, TRUE) }

Input(d, o) == [data |-> d, options |-> o]

\* what one caller alone passes
Inputs ==
    { Input(d, NilOption) : d \in SweepData }
    \cup { Input(d, o) : d \in EdgeData \cup OtherData, o \in SomeOptions }

\* what callers sharing the Generator pass
SharedInputs ==
    { Input(d, o) :
        d \in { NilData, UidData(CharA), UidData(Rep(CharA, 249)) },
        o \in { NilOption, OptionOf(0, 0, TRUE, FALSE) } }

NoResult == [token |-> <<>>, err |-> NoErr]

(***************************************************************************)
(* The state machine.  pc[p] is where caller p is in CreateToken:          *)
(* "idle" (not in a call), "check" (at line 69), "marshal" (at line 78),   *)
(* "sign" (at line 104), "done" (returned, with result[p]).                *)
(***************************************************************************)
\* New (lines 60-64), and the callers outside any call
Init ==
    /\ secret \in Secrets
    /\ now = ClockBase
    /\ pc = [p \in Callers |-> "idle"]
    /\ data = [p \in Callers |-> NilData]
    /\ options = [p \in Callers |-> NilOption]
    /\ iat = [p \in Callers |-> 0]
    /\ encodedClaim = [p \in Callers |-> <<>>]
    /\ result = [p \in Callers |-> NoResult]

\* the wall clock advances by a second
Tick ==
    /\ now < ClockBase + MaxTick
    /\ now' = now + 1
    /\ UNCHANGED <<secret, pc, data, options, iat, encodedClaim, result>>

\* caller p enters CreateToken(data, options) (line 67)
Call(p, inputs) ==
    /\ pc[p] = "idle"
    /\ \E in \in inputs :
        /\ data' = [data EXCEPT ![p] = in.data]
        /\ options' = [options EXCEPT ![p] = in.options]
    /\ pc' = [pc EXCEPT ![p] = "check"]
    /\ UNCHANGED <<secret, now, iat, encodedClaim, result>>

\* lines 69-76: the parameters are checked
CheckStep(p) ==
    /\ pc[p] = "check"
    /\ LET err == CheckParameters(data[p], options[p])
       IN  IF err # NoErr
           THEN /\ result' = [result EXCEPT ![p] = [token |-> <<>>, err |-> err]]
                /\ pc' = [pc EXCEPT ![p] = "done"]
           ELSE /\ pc' = [pc EXCEPT ![p] = "marshal"]
                /\ UNCHANGED result
    /\ UNCHANGED <<secret, now, data, options, iat, encodedClaim>>

\* lines 78-102: the clock is read and the claims are marshalled and encoded
MarshalStep(p) ==
    /\ pc[p] = "marshal"
    /\ iat' = [iat EXCEPT ![p] = now]
    /\ IF ~ClaimMarshalable(data[p])
       THEN /\ result' = [result EXCEPT ![p] = [token |-> <<>>, err |-> ErrMarshal]]
            /\ pc' = [pc EXCEPT ![p] = "done"]
            /\ UNCHANGED encodedClaim
       ELSE /\ encodedClaim' =
                  [encodedClaim EXCEPT ![p] = encode(MarshalClaim(options[p], data[p], now))]
            /\ pc' = [pc EXCEPT ![p] = "sign"]
            /\ UNCHANGED result
    /\ UNCHANGED <<secret, now, data, options>>

\* the signing step of a Generator that replaces its secret as it signs
SignStepRekey(p) ==
    /\ pc[p] = "sign"
    /\ result' = [result EXCEPT ![p] =
                     CheckLength(AssembleToken(encodedHeader, encodedClaim[p], secret))]
    /\ pc' = [pc EXCEPT ![p] = "done"]
    /\ secret' = CHOOSE s \in Secrets : s # secret
    /\ UNCHANGED <<now, data, options, iat, encodedClaim>>

\* lines 104-113: the token is signed with t.secret, measured and returned
SignStep(p) ==
    /\ pc[p] = "sign"
    /\ result' = [result EXCEPT ![p] =
                     CheckLength(AssembleToken(encodedHeader, encodedClaim[p], secret))]
    /\ pc' = [pc EXCEPT ![p] = "done"]
    /\ UNCHANGED <<secret, now, data, options, iat, encodedClaim>>

\* the caller has taken the result; its next call starts afresh
Release(p) ==
    /\ pc[p] = "done"
    /\ pc' = [pc EXCEPT ![p] = "idle"]
    /\ data' = [data EXCEPT ![p] = NilData]
    /\ options' = [options EXCEPT ![p] = NilOption]
    /\ iat' = [iat EXCEPT ![p] = 0]
    /\ encodedClaim' = [encodedClaim EXCEPT ![p] = <<>>]
    /\ result' = [result EXCEPT ![p] = NoResult]
    /\ UNCHANGED <<secret, now>>

\* one caller, every input
Next ==
    \/ Tick
    \/ Call(1, Inputs)
    \/ CheckStep(1)
    \/ MarshalStep(1)
    \/ SignStep(1)
    \/ Release(1)

Spec == Init /\ [][Next]_vars

\* two callers on the shared Generator, their steps interleaved
NextShared ==
    \/ Tick
    \/ \E p \in Callers : Call(p, SharedInputs)
    \/ \E p \in Callers : CheckStep(p)
    \/ \E p \in Callers : MarshalStep(p)
    \/ \E p \in Callers : SignStep(p)
    \/ \E p \in Callers : Release(p)

SpecShared == Init /\ [][NextShared]_vars

(***************************************************************************)
(* What a receiver of a token reads from it: the segments between the      *)
(* separators, the bytes a segment encodes, and the members of the JSON    *)
(* object those bytes spell.                                               *)
(***************************************************************************)
Done(p) == pc[p] = "done"

\* p's call returned a token and a nil error
Minted(p) == Done(p) /\ result[p].err = NoErr

\* the positions of the separators in a token
Seps(t) == { i \in 1..Len(t) : t[i] = 46 }

FirstSep(t) == CHOOSE i \in Seps(t) : \A j \in Seps(t) : i <= j
LastSep(t) == CHOOSE i \in Seps(t) : \A j \in Seps(t) : j <= i

Segment1(t) == SubSeq(t, 1, FirstSep(t) - 1)
Segment2(t) == SubSeq(t, FirstSep(t) + 1, LastSep(t) - 1)
Segment3(t) == SubSeq(t, LastSep(t) + 1, Len(t))

\* the six bits a base64 character stands for
Sextet(c) ==
    IF c >= 65 /\ c <= 90 THEN c - 65
    ELSE IF c >= 97 /\ c <= 122 THEN c - 71
    ELSE IF c >= 48 /\ c <= 57 THEN c + 4
    ELSE IF c = 45 THEN 62
    ELSE 63

\* the bytes an unpadded base64 string encodes
Decode(s) ==
    LET V(j) == Sextet(s[j])
        Byte(i) ==
            LET base == 4 * ((i - 1) \div 3)
                r == (i - 1) % 3
            IN  IF r = 0 THEN V(base + 1) * 4 + (V(base + 2) \div 16)
                ELSE IF r = 1 THEN (V(base + 2) % 16) * 16 + (V(base + 3) \div 4)
                ELSE (V(base + 3) % 4) * 64 + V(base + 4)
    IN  <<>> \o [i \in 1..((Len(s) * 3) \div 4) |-> Byte(i)]

\* whether the backslash-free prefix rule makes position i of s the start of
\* an escape: a backslash after an even number of backslashes
EscStart(s, i) ==
    /\ i >= 1
    /\ i <= Len(s)
    /\ s[i] = 92
    /\ \/ i = 1
       \/ s[i - 1] # 92
       \/ LET k == CHOOSE k \in 0..(i - 1) :
                      /\ k = 0 \/ s[k] # 92
                      /\ \A m \in (k + 1)..(i - 1) : s[m] = 92
          IN  (i - 1 - k) % 2 = 0

HexVal(c) ==
    IF c >= 48 /\ c <= 57 THEN c - 48
    ELSE IF c >= 97 /\ c <= 102 THEN c - 87
    ELSE c - 55

\* the UTF-8 bytes of a code point of the basic plane
Utf8(cp) ==
    IF cp < 128 THEN <<cp>>
    ELSE IF cp < 2048 THEN <<192 + (cp \div 64), 128 + (cp % 64)>>
    ELSE <<224 + (cp \div 4096), 128 + ((cp \div 64) % 64), 128 + (cp % 64)>>

\* the bytes of the string whose JSON literal has s between its quotes
Unquote(s) ==
    LET piece(i) ==
            IF EscStart(s, i)
            THEN IF s[i + 1] = 117
                 THEN Utf8(HexVal(s[i + 2]) * 4096 + HexVal(s[i + 3]) * 256
                           + HexVal(s[i + 4]) * 16 + HexVal(s[i + 5]))
                 ELSE IF s[i + 1] = 110 THEN <<10>>
                 ELSE IF s[i + 1] = 114 THEN <<13>>
                 ELSE IF s[i + 1] = 116 THEN <<9>>
                 ELSE <<s[i + 1]>>
            ELSE IF EscStart(s, i - 1) THEN <<>>
            ELSE IF \E k \in (i - 5)..(i - 2) : EscStart(s, k) /\ s[k + 1] = 117 THEN <<>>
            ELSE <<s[i]>>
    IN  Flatten([i \in 1..Len(s) |-> piece(i)], 1, Len(s))

\* the closing quote of the string literal that opens at position i of b
StringEnd(b, i) ==
    CHOOSE j \in (i + 1)..Len(b) :
        /\ b[j] = 34
        /\ ~EscStart(b, j - 1)
        /\ \A k \in (i + 1)..(j - 1) : ~(b[k] = 34 /\ ~EscStart(b, k - 1))

\* the last position of a number, true, false or null that starts at i
ScalarEnd(b, i) ==
    CHOOSE j \in i..Len(b) :
        /\ b[j + 1] \in {44, 125}
        /\ \A k \in i..j : b[k] \notin {44, 125}

\* the members of the object whose first member (or closing brace) is at
\* position i of b, each with its key and the span of its value, and the
\* position after the closing brace
RECURSIVE ParseMembers(_, _)
RECURSIVE ValueEnd(_, _)
ValueEnd(b, i) ==
    IF b[i] = 34 THEN StringEnd(b, i)
    ELSE IF b[i] = 123 THEN ParseMembers(b, i + 1).next - 1
    ELSE ScalarEnd(b, i)

ParseMembers(b, i) ==
    IF b[i] = 125 THEN [members |-> <<>>, next |-> i + 1]
    ELSE LET keyEnd == StringEnd(b, i)
             from == keyEnd + 2
             to == ValueEnd(b, from)
             rest == IF b[to + 1] = 44 THEN ParseMembers(b, to + 2)
                     ELSE [members |-> <<>>, next |-> to + 2]
         IN  [members |-> << [key |-> Unquote(SubSeq(b, i + 1, keyEnd - 1)),
                              from |-> from, to |-> to] >> \o rest.members,
              next |-> rest.next]

\* the members of the object b spells
Object(b) == ParseMembers(b, 2).members

HasKey(ms, key) == \E i \in 1..Len(ms) : ms[i].key = key

\* the text of the value of a key the object holds
Raw(b, ms, key) ==
    LET m == ms[CHOOSE i \in 1..Len(ms) : ms[i].key = key]
    IN  SubSeq(b, m.from, m.to)

\* the integer a decimal text spells
RECURSIVE Atoi(_)
Atoi(s) ==
    IF s[1] = 45 THEN 0 - Atoi(Tail(s))
    ELSE IF Len(s) = 1 THEN s[1] - 48
    ELSE 10 * Atoi(SubSeq(s, 1, Len(s) - 1)) + (s[Len(s)] - 48)

\* the claims JSON of a token, and its members
ClaimBytes(t) == Decode(Segment2(t))
Claims(t) == Object(ClaimBytes(t))

\* the string at d.uid of a token's claims
DecodedUid(t) ==
    LET b == ClaimBytes(t)
        d == Raw(b, Object(b), <<100>>)
        lit == Raw(d, Object(d), KeyUid)
    IN  Unquote(SubSeq(lit, 2, Len(lit) - 1))

(***************************************************************************)
(* The input rules of CreateToken, as the specification words them.        *)
(***************************************************************************)
AssertsAdmin(o) == ~o.isNil /\ o.admin

UidPresent(d) == \E i \in 1..Len(d.m) : d.m[i].key = KeyUid
UidOf(d) == d.m[CHOOSE i \in 1..Len(d.m) : d.m[i].key = KeyUid].val
UidIsString(d) == UidPresent(d) /\ UidOf(d).kind = "string"

\* rule 1: the payload is absent and the options assert neither admin nor debug
Rule1Fails(d, o) == d.isNil /\ (o.isNil \/ (~o.admin /\ ~o.debug))
\* rule 2: there is no uid and the options do not assert admin
Rule2Fails(d, o) == ~UidPresent(d) /\ ~AssertsAdmin(o)
\* rule 3: the uid is not a string
Rule3Fails(d) == UidPresent(d) /\ ~UidIsString(d)
\* the characters of s: its bytes less those that continue a rune
RuneCount(s) ==
    Cardinality({ i \in 1..Len(s) : ~(IsCont(s[i]) /\ i > 1 /\ IsLead2(s[i - 1])) })

\* rule 4: the uid string is longer than 256, in characters and so in bytes
Rule4Fails(d) == UidIsString(d) /\ RuneCount(UidOf(d).s) > 256
\* the uid string is longer than 256 in bytes and not in characters: which
\* of the two rule 4 counts is the matter of C7
Rule4Open(d) ==
    UidIsString(d) /\ RuneCount(UidOf(d).s) <= 256 /\ Len(UidOf(d).s) > 256

ValidationErrors == {ErrEmptyDataNoOptions, ErrNoUIDKey, ErrUIDNotString, ErrUIDTooLong}

C2_AbsentPayloadMints ==
    \A p \in Callers :
        (Done(p) /\ data[p].isNil /\ ~options[p].isNil
                 /\ (options[p].admin \/ options[p].debug))
            => (result[p].err = NoErr /\ result[p].token # <<>>)

\* C3: the third segment of a minted token encodes the signing input S
\* followed by the HMAC-SHA256 tag of the message S under the secret.
C3_SignatureTagOverMessage ==
    \A p \in Callers :
        Minted(p) =>
            LET t == result[p].token
                S == Segment1(t) \o TokenSep \o Segment2(t)
            IN  Segment3(t) = encode(S \o HmacSha256(secret, S))

\* the token CreateToken assembles from p's parameters and clock reading
Assembled(p) ==
    AssembleToken(encodedHeader, encode(MarshalClaim(options[p], data[p], iat[p])), secret)

\* C4: a returned token has at most 1024 bytes, and the call fails with
\* ErrTokenTooLong, returning no token, exactly when the parameters pass
\* validation and the token assembled from them (there is one when the
\* payload can be marshalled) is longer than 1024 bytes.
C4_LengthBound ==
    \A p \in Callers :
        Done(p) =>
            /\ result[p].err = NoErr =>
                   (result[p].token # <<>> /\ Len(result[p].token) <= 1024)
            /\ result[p].err # NoErr => result[p].token = <<>>
            /\ result[p].err = ErrTokenTooLong <=>
                   /\ CheckParameters(data[p], options[p]) = NoErr
                   /\ ClaimMarshalable(data[p])
                   /\ Len(Assembled(p)) > 1024

\* a call with a valid uid that fails on the length of the token
C4_Witness ==
    \E p \in Callers :
        /\ Done(p)
        /\ result[p].err = ErrTokenTooLong
        /\ UidIsString(data[p])
        /\ Len(UidOf(data[p]).s) <= 256

\* C5: the claims of a minted token hold the key "d" exactly when a payload
\* was passed.
C5_AbsentPayloadOmitsD ==
    \A p \in Callers :
        Minted(p) => (HasKey(Claims(result[p].token), <<100>>) <=> ~data[p].isNil)

\* whether s is well-formed UTF-8 (of runes of one and two bytes)
ValidUtf8(s) ==
    \A i \in 1..Len(s) :
        \/ s[i] < 128
        \/ IsLead2(s[i]) /\ i < Len(s) /\ IsCont(s[i + 1])
        \/ IsCont(s[i]) /\ i > 1 /\ IsLead2(s[i - 1])

\* C6 as stated: every call whose payload (of JSON values) has a uid that
\* is a string (of well-formed UTF-8) of at most 256 returns a token whose
\* claims decode to that uid.
C6_Original ==
    \A p \in Callers :
        (Done(p) /\ ClaimMarshalable(data[p]) /\ UidIsString(data[p])
                 /\ ValidUtf8(UidOf(data[p]).s) /\ Len(UidOf(data[p]).s) <= 256)
            => (Minted(p) /\ DecodedUid(result[p].token) = UidOf(data[p]).s)

\* C6 (amended): a call whose payload (of JSON values) has a uid that is a
\* string s (of well-formed UTF-8) of at most 256 bytes either returns a
\* token whose claims decode to d.uid = s, or fails with ErrTokenTooLong.
C6_UidRoundTrip ==
    \A p \in Callers :
        (Done(p) /\ ClaimMarshalable(data[p]) /\ UidIsString(data[p])
                 /\ ValidUtf8(UidOf(data[p]).s) /\ Len(UidOf(data[p]).s) <= 256)
            => \/ Minted(p) /\ DecodedUid(result[p].token) = UidOf(data[p]).s
               \/ result[p].err = ErrTokenTooLong

\* a minted token whose uid has escaped characters and a two-byte rune
C6_Witness ==
    \E p \in Callers :
        /\ Minted(p)
        /\ UidIsString(data[p])
        /\ UidOf(data[p]).s = MixedUid
        /\ DecodedUid(result[p].token) = MixedUid

\* C7: when rules 1 to 3 pass, the call fails with ErrUIDTooLong exactly
\* when the uid has more than 256 characters.
C7_UidLengthInCharacters ==
    \A p \in Callers :
        (Done(p) /\ ~Rule1Fails(data[p], options[p]) /\ ~Rule2Fails(data[p], options[p])
                 /\ ~Rule3Fails(data[p]))
            => (result[p].err = ErrUIDTooLong
                    <=> (UidPresent(data[p]) /\ RuneCount(UidOf(data[p]).s) > 256))

\* C8: in the claims of a minted token each of nbf, exp, admin, debug is
\* present exactly when the options were passed with that field non-zero or
\* true, and then holds the value passed.
C8_OptionOmission ==
    \A p \in Callers :
        Minted(p) =>
            LET b == ClaimBytes(result[p].token)
                ms == Object(b)
                o == options[p]
            IN  /\ HasKey(ms, <<110,98,102>>) <=> (~o.isNil /\ o.nbf # 0)
                /\ HasKey(ms, <<110,98,102>>) => Atoi(Raw(b, ms, <<110,98,102>>)) = o.nbf
                /\ HasKey(ms, <<101,120,112>>) <=> (~o.isNil /\ o.exp # 0)
                /\ HasKey(ms, <<101,120,112>>) => Atoi(Raw(b, ms, <<101,120,112>>)) = o.exp
                /\ HasKey(ms, <<97,100,109,105,110>>) <=> (~o.isNil /\ o.admin)
                /\ HasKey(ms, <<97,100,109,105,110>>)
                       => Raw(b, ms, <<97,100,109,105,110>>) = <<116,114,117,101>>
                /\ HasKey(ms, <<100,101,98,117,103>>) <=> (~o.isNil /\ o.debug)
                /\ HasKey(ms, <<100,101,98,117,103>>)
                       => Raw(b, ms, <<100,101,98,117,103>>) = <<116,114,117,101>>

\* a minted token whose options set exp and admin and leave nbf and debug
C8_Witness ==
    \E p \in Callers :
        /\ Minted(p)
        /\ ~options[p].isNil
        /\ options[p].exp # 0
        /\ options[p].admin
        /\ options[p].nbf = 0
        /\ ~options[p].debug
        /\ HasKey(Claims(result[p].token), <<101,120,112>>)
        /\ ~HasKey(Claims(result[p].token), <<110,98,102>>)

\* two returned calls with the same payload, options and clock reading on
\* the shared Generator have the same result
SameInputsSameResult ==
    \A p, q \in Callers :
        (Done(p) /\ Done(q) /\ data[p] = data[q] /\ options[p] = options[q]
                 /\ iat[p] = iat[q])
            => result[p] = result[q]

\* no step changes the secret, nor the parameters of a call under way
NoMutation ==
    /\ secret' = secret
    /\ \A p \in Callers :
           (pc[p] # "idle" /\ pc'[p] # "idle")
               => (data'[p] = data[p] /\ options'[p] = options[p])

\* C9: calls with equal secret, payload, options and clock reading return
\* identical results however the calls on the shared Generator interleave,
\* and no call modifies the secret, the payload or the options.
C9_Deterministic == []SameInputsSameResult /\ [][NoMutation]_vars

\* two interleaved calls with the same payload and clock reading, both minted
C9_Witness ==
    \E p, q \in Callers :
        /\ p # q
        /\ Minted(p)
        /\ Minted(q)
        /\ data[p] = data[q]
        /\ options[p] = options[q]
        /\ iat[p] = iat[q]
        /\ result[p] = result[q]

\* the payload is {"uid": s} and nothing else
UidOnly(d) == ~d.isNil /\ Len(d.m) = 1 /\ UidIsString(d)

\* no option field is passed
NoOptionFields(o) == o.isNil \/ (o.nbf = 0 /\ o.exp = 0 /\ ~o.admin /\ ~o.debug)

Ascii(s) == \A i \in 1..Len(s) : s[i] < 128

\* ASCII characters that JSON writes as they are
PlainAscii(s) ==
    \A i \in 1..Len(s) : s[i] >= 32 /\ s[i] < 128 /\ s[i] \notin {34, 92, 60, 62, 38}

\* the characters of the base64 of x bytes
Base64Len(x) == (4 * x + 2) \div 3

\* the length of the token whose claims JSON has c bytes
TokenLen(c) ==
    LET L == 36 + 1 + Base64Len(c)
    IN  L + 1 + Base64Len(L + 32)

\* every minted token has the length TokenLen gives for its claims
LengthFormula ==
    \A p \in Callers :
        Minted(p) => Len(result[p].token) = TokenLen(Len(ClaimBytes(result[p].token)))

\* the outcome for a payload of {"uid": s} alone, without options, on a clock
\* of ten digits, by the length n of s
UidOnlyOutcome(p) ==
    LET n == Len(UidOf(data[p]).s)
    IN  /\ n <= 248 =>
               /\ Minted(p)
               /\ Len(ClaimBytes(result[p].token)) = 39 + n
               /\ n = 248 => Len(result[p].token) = 1024
        /\ (n >= 249 /\ n <= 256) => result[p].err = ErrTokenTooLong
        /\ result[p].err = ErrUIDTooLong <=> n >= 257

\* C10 as stated: the same length and outcomes for s of n ASCII characters
\* of any kind.
C10_Original ==
    /\ LengthFormula
    /\ \A p \in Callers :
           (Done(p) /\ UidOnly(data[p]) /\ Ascii(UidOf(data[p]).s)
                    /\ NoOptionFields(options[p]) /\ Len(Itoa(now)) = 10)
               => UidOnlyOutcome(p)

\* C10 (amended): a minted token has L + 1 + ceil(4(L+32)/3) bytes, where
\* L = 37 + ceil(4c/3) and c is the length of its claims JSON; and for a
\* payload of {"uid": s} alone, s of n ASCII characters that JSON writes
\* unescaped, without options and on a clock of ten digits, c = 39 + n, the
\* call mints for n <= 248 (1024 bytes at 248), fails with ErrTokenTooLong
\* for n in 249..256 and with ErrUIDTooLong exactly for n >= 257.
C10_TokenLength ==
    /\ LengthFormula
    /\ \A p \in Callers :
           (Done(p) /\ UidOnly(data[p]) /\ PlainAscii(UidOf(data[p]).s)
                    /\ NoOptionFields(options[p]) /\ Len(Itoa(now)) = 10)
               => UidOnlyOutcome(p)

\* the uid of 248 letters mints a token of exactly 1024 bytes
C10_Witness ==
    \E p \in Callers :
        /\ Minted(p)
        /\ UidOnly(data[p])
        /\ Len(UidOf(data[p]).s) = 248
        /\ Len(result[p].token) = 1024

====
